---------------------------- MODULE Spec2Model ----------------------------
(***************************************************************************)
(* Model of auth_handlers/hubzilla.py: the credential validator of Cross.  *)
(*                                                                         *)
(* A Python str is modelled as the sequence of its code points, a bytes    *)
(* object as the sequence of its byte values.  One run of main() is the    *)
(* state machine; the remote instance and the user at the terminal are the *)
(* environment, drawn with \E from bounded sets.                           *)
(***************************************************************************)
EXTENDS Integers, Sequences, FiniteSets, TLC

(***************************************************************************)
(* Bounds of the model.                                                    *)
(***************************************************************************)
MaxDomainParts == 3     \* a typed domain is at most this many DomainTokens
MaxChannelLen == 2      \* a typed channel name over ChannelAlphabet
MaxPasswordLen == 1     \* a typed password over PasswordAlphabet

(***************************************************************************)
(* String literals of the source, as code points.                          *)
(***************************************************************************)
HttpsPrefix == <<104, 116, 116, 112, 115, 58, 47, 47>>          \* "https://"
HttpPrefix == <<104, 116, 116, 112, 58, 47, 47>>                \* "http://"
Slash == <<47>>                                                  \* "/"
AtSign == <<64>>                                                 \* "@"
Colon == <<58>>                                                  \* ":"
BasicPrefix == <<66, 97, 115, 105, 99, 32>>                      \* "Basic "
HostMetaPath ==
    <<47, 46, 119, 101, 108, 108, 45, 107, 110, 111, 119, 110,
      47, 104, 111, 115, 116, 45, 109, 101, 116, 97>>            \* "/.well-known/host-meta"
NodeinfoPath ==
    <<47, 110, 111, 100, 101, 105, 110, 102, 111, 47, 50, 46, 48>> \* "/nodeinfo/2.0"
ExportPath ==
    <<47, 97, 112, 105, 47, 122, 47, 49, 46, 48, 47, 99, 104, 97, 110, 110,
      101, 108, 47, 101, 120, 112, 111, 114, 116, 47, 98, 97, 115, 105, 99>>
                                                   \* "/api/z/1.0/channel/export/basic"

(***************************************************************************)
(* Texts used by the inputs and the known vectors of the specification.    *)
(***************************************************************************)
Str_alice == <<97, 108, 105, 99, 101>>
Str_at_alice == <<64, 97, 108, 105, 99, 101>>
Str_secret == <<115, 101, 99, 114, 101, 116>>
Str_example_com == <<101, 120, 97, 109, 112, 108, 101, 46, 99, 111, 109>>
Str_https_example_com_foo_bar ==
    <<104, 116, 116, 112, 115, 58, 47, 47, 101, 120, 97, 109, 112, 108, 101,
      46, 99, 111, 109, 47, 102, 111, 111, 47, 98, 97, 114>>
Str_Basic_alice_secret ==
    <<66, 97, 115, 105, 99, 32, 89, 87, 120, 112, 89, 50, 85, 54, 99, 50, 86,
      106, 99, 109, 86, 48>>                       \* "Basic YWxpY2U6c2VjcmV0"
Str_at_alice_at_example_com ==
    <<64, 97, 108, 105, 99, 101, 64, 101, 120, 97, 109, 112, 108, 101, 46,
      99, 111, 109>>                               \* "@alice@example.com"

(***************************************************************************)
(* String helpers.                                                         *)
(***************************************************************************)
StartsWith(s, p) == Len(s) >= Len(p) /\ SubSeq(s, 1, Len(p)) = p

DropFirst(s, n) == SubSeq(s, n + 1, Len(s))

\* Index of the first "/" of s, 0 when there is none.
FirstSlash(s) ==
    IF \E i \in 1..Len(s) : s[i] = 47
    THEN CHOOSE i \in 1..Len(s) : s[i] = 47 /\ \A j \in 1..(i - 1) : s[j] # 47
    ELSE 0

(***************************************************************************)
(* re.sub("^https?://", "", s): the pattern is anchored at the start and   *)
(* case-sensitive; the optional "s" makes it match "https://" or "http://".*)
(***************************************************************************)
sub_scheme_http_only(s) ==
    IF StartsWith(s, HttpPrefix) THEN DropFirst(s, Len(HttpPrefix)) ELSE s

sub_scheme(s) ==
    IF StartsWith(s, HttpsPrefix) THEN DropFirst(s, Len(HttpsPrefix))
    ELSE IF StartsWith(s, HttpPrefix) THEN DropFirst(s, Len(HttpPrefix))
    ELSE s

(***************************************************************************)
(* re.sub("/.*$", "", s): the leftmost match starts at the first "/" and   *)
(* ".*" runs to the end of the line read, so the rest of s is removed.     *)
(***************************************************************************)
sub_path(s) ==
    IF FirstSlash(s) = 0 THEN s ELSE SubSeq(s, 1, FirstSlash(s) - 1)

\* re.sub("^@", "", s): one leading "@" is removed.
sub_at(s) == IF StartsWith(s, AtSign) THEN DropFirst(s, 1) ELSE s

(***************************************************************************)
(* str.encode("utf-8") for one code point and for a string.                *)
(***************************************************************************)
utf8_char(cp) ==
    IF cp < 128 THEN <<cp>>
    ELSE IF cp < 2048 THEN <<192 + (cp \div 64), 128 + (cp % 64)>>
    ELSE IF cp < 65536
         THEN <<224 + (cp \div 4096), 128 + ((cp \div 64) % 64), 128 + (cp % 64)>>
    ELSE <<240 + (cp \div 262144), 128 + ((cp \div 4096) % 64),
           128 + ((cp \div 64) % 64), 128 + (cp % 64)>>

RECURSIVE encode_utf8(_)
encode_utf8(s) ==
    IF s = <<>> THEN <<>> ELSE utf8_char(Head(s)) \o encode_utf8(Tail(s))

(***************************************************************************)
(* base64.b64encode: the standard alphabet A-Z a-z 0-9 + / with "="        *)
(* padding, three bytes to four characters.                                *)
(***************************************************************************)
b64_char(i) ==
    IF i < 26 THEN 65 + i
    ELSE IF i < 52 THEN 97 + (i - 26)
    ELSE IF i < 62 THEN 48 + (i - 52)
    ELSE IF i = 62 THEN 43
    ELSE 47

RECURSIVE b64encode(_)
b64encode(b) ==
    IF b = <<>> THEN <<>>
    ELSE IF Len(b) = 1
         THEN <<b64_char(b[1] \div 4), b64_char((b[1] % 4) * 16), 61, 61>>
    ELSE IF Len(b) = 2
         THEN <<b64_char(b[1] \div 4),
                b64_char((b[1] % 4) * 16 + (b[2] \div 16)),
                b64_char((b[2] % 16) * 4), 61>>
    ELSE <<b64_char(b[1] \div 4),
           b64_char((b[1] % 4) * 16 + (b[2] \div 16)),
           b64_char((b[2] % 16) * 4 + (b[3] \div 64)),
           b64_char(b[3] % 64)>> \o b64encode(SubSeq(b, 4, Len(b)))

(***************************************************************************)
(* check_usercred, lines 75-79: the authorization header value.            *)
(***************************************************************************)
usercheck_header_no_colon(channel_name, password) ==
    BasicPrefix \o b64encode(encode_utf8(channel_name \o password))

usercheck_header(channel_name, password) ==
    LET usercheck_creds == channel_name \o Colon \o password
        usercheck_cred64 == b64encode(encode_utf8(usercheck_creds))
    IN  BasicPrefix \o usercheck_cred64

(***************************************************************************)
(* The URLs the three checks request.                                      *)
(***************************************************************************)
host_meta_url(instance) == HttpsPrefix \o instance \o HostMetaPath

nodeinfo_url(instance) == HttpsPrefix \o instance \o NodeinfoPath

usercheck_url(instance) == HttpsPrefix \o instance \o ExportPath

(***************************************************************************)
(* A parsed JSON value: t is its type, s the text of a string, m the       *)
(* members of an object as a sequence of [k, v] with distinct keys.        *)
(***************************************************************************)
JNull == [t |-> "null", s |-> "", m |-> <<>>]

JArr == [t |-> "arr", s |-> "", m |-> <<>>]

JStr(text) == [t |-> "str", s |-> text, m |-> <<>>]

JObj(members) == [t |-> "obj", s |-> "", m |-> members]

Software(v) == JObj(<<[k |-> "software", v |-> v]>>)

Name(v) == JObj(<<[k |-> "name", v |-> v]>>)

\* A response body: valid is whether Response.json() can parse it.
NotJson == [valid |-> FALSE, json |-> JNull]

Json(v) == [valid |-> TRUE, json |-> v]

(***************************************************************************)
(* What requests.request() gives back: it raises (no response: DNS         *)
(* failure, refused connection, TLS error, invalid URL) or returns a       *)
(* Response with a status code and a body.                                 *)
(***************************************************************************)
Raised == [raised |-> TRUE, status_code |-> 0, body |-> NotJson]

Response(status_code, body) ==
    [raised |-> FALSE, status_code |-> status_code, body |-> body]

NoResponse == [raised |-> FALSE, status_code |-> 0, body |-> NotJson]

StatusCodes == {200, 201, 204, 301, 401, 404, 500}

NodeinfoStatusCodes == {200, 404, 500}

NodeinfoBodies ==
    { NotJson,                                     \* an HTML page, an empty body
      Json(JNull),                                 \* null
      Json(JArr),                                  \* []
      Json(JObj(<<>>)),                            \* {}
      Json(Software(JStr("hubzilla"))),            \* {"software": "hubzilla"}
      Json(Software(JObj(<<>>))),                  \* {"software": {}}
      Json(Software(Name(JNull))),                 \* {"software": {"name": null}}
      Json(Software(Name(JStr("hubzilla")))),
      Json(Software(Name(JStr("redmatrix")))),
      Json(Software(Name(JStr("Hubzilla")))),
      Json(Software(Name(JStr("mastodon")))) }

\* A URL with an empty host ("https:///...") is rejected before any
\* connection is made: the call can only raise.
Outcomes(instance, codes, bodies) ==
    IF instance = <<>> THEN {Raised}
    ELSE {Raised} \cup {Response(c, b) : c \in codes, b \in bodies}

(***************************************************************************)
(* Return values of the checks as main sees them: "True", "False", or      *)
(* "raise" when an exception leaves the function.                          *)
(***************************************************************************)
basic_check_any_2xx(host_meta) ==
    IF host_meta.raised THEN "raise"
    ELSE IF host_meta.status_code \in 200..299 THEN "True"
    ELSE "False"

basic_check(host_meta) ==
    IF host_meta.raised THEN "raise"
    ELSE IF host_meta.status_code = 200 THEN "True"
    ELSE "False"

\* Python's value[key] for a str key: KeyError when a dict lacks the key,
\* TypeError when value is a list, a str or None.
Subscript(value, key) ==
    IF value.t = "obj" /\ \E i \in 1..Len(value.m) : value.m[i].k = key
    THEN [raised |-> FALSE,
          v |-> value.m[CHOOSE i \in 1..Len(value.m) : value.m[i].k = key].v]
    ELSE [raised |-> TRUE, v |-> JNull]

nodeinfo_verdict(nodeinfo_req) ==
    IF ~nodeinfo_req.body.valid THEN "raise"
    ELSE LET software == Subscript(nodeinfo_req.body.json, "software") IN
         IF software.raised THEN "raise"
         ELSE LET name == Subscript(software.v, "name") IN
              IF name.raised THEN "raise"
              ELSE IF name.v.t = "str" /\ name.v.s \in {"hubzilla", "redmatrix"}
                   THEN "True"
              ELSE "False"

check_nodeinfo_no_fail_open(nodeinfo_req) ==
    IF nodeinfo_req.raised THEN "raise" ELSE nodeinfo_verdict(nodeinfo_req)

check_nodeinfo(nodeinfo_req) ==
    IF nodeinfo_req.raised THEN "raise"
    ELSE IF nodeinfo_req.status_code = 404 THEN "True"
    ELSE nodeinfo_verdict(nodeinfo_req)

check_usercred(usercheck) ==
    IF usercheck.raised THEN "raise"
    ELSE IF usercheck.status_code = 200 THEN "True"
    ELSE "False"

(***************************************************************************)
(* A call of requests.request as it leaves the program.                    *)
(***************************************************************************)
Request(method, url, authorization, params, data) ==
    [method |-> method, url |-> url, authorization |-> authorization,
     params |-> params, data |-> data]

GetRequest(url) == Request("GET", url, <<>>, <<>>, "None")

usercheck_params == << <<"sections", "channel">>, <<"posts", "0">> >>

usercheck_request(instance, channel_name, password) ==
    Request("POST", usercheck_url(instance),
            usercheck_header(channel_name, password), usercheck_params, "")

(***************************************************************************)
(* What is written to the terminal.                                        *)
(***************************************************************************)
Stdout(text) == [stream |-> "stdout", text |-> text, arg |-> <<>>]

Stderr(text) == [stream |-> "stderr", text |-> text, arg |-> <<>>]

Banner ==
    << Stdout("Cross - a Mastodon/Hubzilla cross-poster"),
       Stdout("       Holly Lotor Montalvo  2020       "),
       Stdout("----------------------------------------") >>

InstancePrompt == Stdout("Please enter your instance's domain (i.e. example.com): ")

ChannelPrompt(instance) ==
    [stream |-> "stdout",
     text |-> "Please enter your channel name (this is what goes before @%s): ",
     arg |-> instance]

PasswordPrompt == [stream |-> "tty", text |-> "Enter your password: ", arg |-> <<>>]

BasicCheckDiagnostic ==
    Stdout("Instance returned error upon validation. Something's amiss with the instance. Bailing...")

NodeinfoDiagnostic == Stdout("Nodeinfo claims this isn't a Hubzilla instance. Bailing...")

UsercredDiagnostic == Stdout("Authorization attempt failed. Bailing...")

\* An exception nobody catches: the interpreter writes the traceback to
\* stderr and the process ends with status 1.
Traceback == Stderr("Traceback (most recent call last): ...")

(***************************************************************************)
(* What the user may type.                                                 *)
(***************************************************************************)
RECURSIVE Concats(_, _)
Concats(tokens, n) ==
    IF n = 0 THEN {<<>>}
    ELSE LET shorter == Concats(tokens, n - 1)
         IN  shorter \cup {s \o t : s \in shorter, t \in tokens}

DomainTokens == {HttpsPrefix, HttpPrefix, Slash, Colon, <<101>>}   \* ... "e"

DomainExamples ==
    { Str_example_com,
      Str_https_example_com_foo_bar,
      <<72, 84, 84, 80, 83, 58, 47, 47, 101, 47, 120>>,   \* "HTTPS://e/x"
      <<32>> \o HttpsPrefix \o <<101>>,                   \* " https://e"
      <<104, 116, 116, 112, 58, 47, 101>> }               \* "http:/e"

DomainInputs == DomainExamples \cup Concats(DomainTokens, MaxDomainParts)

ChannelAlphabet == {64, 97, 233}                           \* "@", "a", e-acute

ChannelInputs ==
    {Str_alice, Str_at_alice}
        \cup Concats({<<c>> : c \in ChannelAlphabet}, MaxChannelLen)

PasswordAlphabet == {58, 8364, 128512}           \* ":", euro sign, an emoji

PasswordInputs ==
    {Str_secret} \cup Concats({<<c>> : c \in PasswordAlphabet}, MaxPasswordLen)

(***************************************************************************)
(* State of one run of main().                                             *)
(***************************************************************************)
VARIABLES
    pc,            \* where main is: the prompt or check it is about to run
    account_name,  \* line 98, assigned at line 142
    account_type,  \* line 99
    instance,      \* line 100, the sanitized domain after line 113
    channel_name,  \* line 101, the sanitized channel name after line 134
    password,      \* line 102 (never assigned again: line 135 binds pword)
    pword,         \* line 135
    typed,         \* the line most recently read from the terminal, as typed
    resp,          \* outcome of the request of the check that last ran
    basic_ret,     \* what basic_check returned to main, "none" before
    nodeinfo_ret,  \* what check_nodeinfo returned to main
    usercred_ret,  \* what check_usercred returned to main
    requests,      \* the calls of requests.request so far, in order
    output,        \* what was written to the terminal so far, in order
    exit_status    \* <<>> while running, <<code>> once the process ended

locals == <<account_name, account_type, instance, channel_name, password, pword>>

rets == <<basic_ret, nodeinfo_ret, usercred_ret>>

vars == <<pc, locals, typed, resp, rets, requests, output, exit_status>>

Terminal == {"Done", "Abort", "Uncaught"}

Init ==
    /\ pc = "AwaitInstance"
    /\ account_name = <<>>
    /\ account_type = 1
    /\ instance = <<>>
    /\ channel_name = <<>>
    /\ password = <<>>
    /\ pword = <<>>
    /\ typed = <<>>
    /\ resp = NoResponse
    /\ basic_ret = "none"
    /\ nodeinfo_ret = "none"
    /\ usercred_ret = "none"
    /\ requests = <<>>
    /\ output = <<>>
    /\ exit_status = <<>>

(***************************************************************************)
(* Where main goes after each check, from the value the check returned:    *)
(* "is False" prints the diagnostic and calls exit(1); an exception leaves *)
(* main uncaught.                                                          *)
(***************************************************************************)
after_basic_check_no_exit(ret) ==
    IF ret = "raise" THEN "Uncaught" ELSE "check_nodeinfo"

after_basic_check_retry(ret) ==
    IF ret = "raise" THEN "Uncaught"
    ELSE IF ret = "False" THEN "basic_check"
    ELSE "check_nodeinfo"

after_basic_check(ret) ==
    IF ret = "raise" THEN "Uncaught"
    ELSE IF ret = "False" THEN "Abort"
    ELSE "check_nodeinfo"

after_check_nodeinfo(ret) ==
    IF ret = "raise" THEN "Uncaught"
    ELSE IF ret = "False" THEN "Abort"
    ELSE "AwaitChannel"

after_check_usercred(ret) ==
    IF ret = "raise" THEN "Uncaught"
    ELSE IF ret = "False" THEN "Abort"
    ELSE "Done"

\* What main or the interpreter prints on the way to `next`.
Printed(next, diagnostic) ==
    IF next = "Abort" THEN <<diagnostic>>
    ELSE IF next = "Uncaught" THEN <<Traceback>>
    ELSE <<>>

\* exit(1) at lines 125, 130, 140; status 1 for an uncaught exception;
\* status 0 when main returns.
ExitStatus(next) ==
    IF next \in {"Abort", "Uncaught"} THEN <<1>>
    ELSE IF next = "Done" THEN <<0>>
    ELSE <<>>

\* Lines 112-113: the two substitutions applied to the typed domain.
sanitize_instance(domain) == sub_path(sub_scheme(domain))

\* Line 142.
account_name_swapped(channel, domain) == AtSign \o domain \o AtSign \o channel

make_account_name(channel, domain) == AtSign \o channel \o AtSign \o domain

(***************************************************************************)
(* Lines 105-113: the banner, the domain prompt and its sanitization.      *)
(***************************************************************************)
PromptInstance ==
    /\ pc = "AwaitInstance"
    /\ \E domain \in DomainInputs :
         /\ typed' = domain
         /\ instance' = sanitize_instance(domain)
    /\ output' = output \o Banner \o <<InstancePrompt>>
    /\ pc' = "basic_check"
    /\ UNCHANGED <<account_name, account_type, channel_name, password, pword,
                   resp, rets, requests, exit_status>>

(***************************************************************************)
(* Lines 117-125 with basic_check, lines 40-48.                            *)
(***************************************************************************)
BasicCheck ==
    /\ pc = "basic_check"
    /\ \E host_meta \in Outcomes(instance, StatusCodes, {NotJson}) :
         LET ret == basic_check(host_meta)
             next == after_basic_check(ret)
         IN  /\ requests' = Append(requests, GetRequest(host_meta_url(instance)))
             /\ resp' = host_meta
             /\ basic_ret' = ret
             /\ output' = output \o Printed(next, BasicCheckDiagnostic)
             /\ exit_status' = ExitStatus(next)
             /\ pc' = next
    /\ UNCHANGED <<locals, typed, nodeinfo_ret, usercred_ret>>

(***************************************************************************)
(* Lines 126-130 with check_nodeinfo, lines 52-69.                         *)
(***************************************************************************)
CheckNodeinfo ==
    /\ pc = "check_nodeinfo"
    /\ \E nodeinfo_req \in Outcomes(instance, NodeinfoStatusCodes, NodeinfoBodies) :
         LET ret == check_nodeinfo(nodeinfo_req)
             next == after_check_nodeinfo(ret)
         IN  /\ requests' = Append(requests, GetRequest(nodeinfo_url(instance)))
             /\ resp' = nodeinfo_req
             /\ nodeinfo_ret' = ret
             /\ output' = output \o Printed(next, NodeinfoDiagnostic)
             /\ exit_status' = ExitStatus(next)
             /\ pc' = next
    /\ UNCHANGED <<locals, typed, basic_ret, usercred_ret>>

(***************************************************************************)
(* Lines 133-134: the channel prompt.  The response of check_nodeinfo was  *)
(* local to it and is gone.                                                *)
(***************************************************************************)
PromptChannel ==
    /\ pc = "AwaitChannel"
    /\ \E name \in ChannelInputs :
         /\ typed' = name
         /\ channel_name' = sub_at(name)
    /\ output' = Append(output, ChannelPrompt(instance))
    /\ resp' = NoResponse
    /\ pc' = "AwaitPassword"
    /\ UNCHANGED <<account_name, account_type, instance, password, pword,
                   rets, requests, exit_status>>

(***************************************************************************)
(* Line 135: getpass prompts on the terminal and does not echo.            *)
(***************************************************************************)
PromptPassword ==
    /\ pc = "AwaitPassword"
    /\ \E secret \in PasswordInputs :
         /\ typed' = secret
         /\ pword' = secret
    /\ output' = Append(output, PasswordPrompt)
    /\ pc' = "check_usercred"
    /\ UNCHANGED <<account_name, account_type, instance, channel_name, password,
                   resp, rets, requests, exit_status>>

(***************************************************************************)
(* Lines 138-142 with check_usercred, lines 73-92.                         *)
(***************************************************************************)
CheckUsercred ==
    /\ pc = "check_usercred"
    /\ \E usercheck \in Outcomes(instance, StatusCodes, {NotJson}) :
         LET ret == check_usercred(usercheck)
             next == after_check_usercred(ret)
         IN  /\ requests' =
                    Append(requests, usercheck_request(instance, channel_name, pword))
             /\ resp' = usercheck
             /\ usercred_ret' = ret
             /\ output' = output \o Printed(next, UsercredDiagnostic)
             /\ exit_status' = ExitStatus(next)
             /\ account_name' =
                    IF next = "Done" THEN make_account_name(channel_name, instance)
                    ELSE account_name
             /\ pc' = next
    /\ UNCHANGED <<account_type, instance, channel_name, password, pword,
                   typed, basic_ret, nodeinfo_ret>>

Next ==
    \/ PromptInstance
    \/ BasicCheck
    \/ CheckNodeinfo
    \/ PromptChannel
    \/ PromptPassword
    \/ CheckUsercred

Spec == Init /\ [][Next]_vars

TypeOK ==
    /\ pc \in {"AwaitInstance", "basic_check", "check_nodeinfo", "AwaitChannel",
               "AwaitPassword", "check_usercred"} \cup Terminal
    /\ basic_ret \in {"none", "True", "False", "raise"}
    /\ nodeinfo_ret \in {"none", "True", "False", "raise"}
    /\ usercred_ret \in {"none", "True", "False", "raise"}
    /\ account_type = 1
    /\ password = <<>>

(***************************************************************************)
(* Properties.  Stages of a run, read off the state.                       *)
(***************************************************************************)
\* typed is still the domain as the user typed it.
DomainInHand ==
    \/ pc \in {"basic_check", "check_nodeinfo", "AwaitChannel"}
    \/ pc \in Terminal /\ usercred_ret = "none"

\* resp is the outcome of the host-meta request.
HostMetaInHand == basic_ret # "none" /\ nodeinfo_ret = "none"

\* resp is the outcome of the nodeinfo request.
NodeinfoInHand ==
    /\ nodeinfo_ret # "none"
    /\ usercred_ret = "none"
    /\ pc \in {"AwaitChannel"} \cup Terminal

\* resp is the outcome of the export request.
UsercheckInHand == usercred_ret # "none"

PromptedForCredentials ==
    \E i \in 1..Len(output) :
        \/ output[i].stream = "tty"
        \/ output[i].text = ChannelPrompt(<<>>).text

PostIssued == \E i \in 1..Len(requests) : requests[i].method = "POST"

Failed(ret) == ret \in {"False", "raise"}

\* C1: the checks abort on first failure: after a failed basic_check there
\* is no nodeinfo request, no credential request and no channel or password
\* prompt; after a failed check_nodeinfo there is no credential request; the
\* credential POST is issued only after basic_check and check_nodeinfo both
\* succeeded.
C1_AbortOnFirstFailure ==
    /\ Failed(basic_ret) =>
          /\ Len(requests) = 1
          /\ nodeinfo_ret = "none" /\ usercred_ret = "none"
          /\ ~PromptedForCredentials
          /\ pc \in Terminal
    /\ Failed(nodeinfo_ret) =>
          /\ ~PostIssued
          /\ usercred_ret = "none"
          /\ pc \in Terminal
    /\ PostIssued => basic_ret = "True" /\ nodeinfo_ret = "True"

C1_Witness ==
    /\ pc = "Abort"
    /\ basic_ret = "False"
    /\ resp.status_code = 500
    /\ Len(requests) = 1

\* C2: the composite account identifier is assigned only after all three
\* checks passed, its value is "@" + channel name + "@" + instance domain
\* (both sanitized), and it stays empty in every run a failed check ends.
C2_AccountName ==
    /\ account_name # <<>> =>
          /\ basic_ret = "True" /\ nodeinfo_ret = "True" /\ usercred_ret = "True"
          /\ pc = "Done"
          /\ Len(account_name) = Len(channel_name) + Len(instance) + 2
          /\ account_name[1] = 64
          /\ SubSeq(account_name, 2, Len(channel_name) + 1) = channel_name
          /\ account_name[Len(channel_name) + 2] = 64
          /\ SubSeq(account_name, Len(channel_name) + 3, Len(account_name)) = instance
    /\ pc = "Done" => account_name # <<>>
    /\ pc \in {"Abort", "Uncaught"} => account_name = <<>>

C2_Witness ==
    /\ pc = "Done"
    /\ channel_name = Str_alice
    /\ instance = Str_example_com
    /\ account_name = Str_at_alice_at_example_com

\* The diagnostic of the stage whose check returned False.
FailedStageDiagnostic ==
    IF basic_ret = "False" THEN BasicCheckDiagnostic
    ELSE IF nodeinfo_ret = "False" THEN NodeinfoDiagnostic
    ELSE UsercredDiagnostic

\* C3: every run ends either in Done with exit code 0, only when all three
\* checks passed, or in Abort with exit code 1 when a check did not succeed,
\* the last thing printed being the diagnostic of the stage that failed; no
\* run ends in any other way.
C3_TwoTerminalStates ==
    exit_status # <<>> =>
        \/ /\ pc = "Done"
           /\ exit_status = <<0>>
           /\ basic_ret = "True" /\ nodeinfo_ret = "True" /\ usercred_ret = "True"
        \/ /\ pc = "Abort"
           /\ exit_status = <<1>>
           /\ "False" \in {basic_ret, nodeinfo_ret, usercred_ret}
           /\ output[Len(output)] = FailedStageDiagnostic

\* C4: when the request fails at the transport level, basic_check returns
\* false and check_usercred returns false: the failure reaches main as the
\* value False, not as an exception.
C4_TransportFailureIsFalse ==
    /\ (HostMetaInHand /\ resp.raised) => basic_ret = "False"
    /\ (UsercheckInHand /\ resp.raised) => usercred_ret = "False"

\* C5: for every status code received, basic_check returns true iff the
\* host-meta status is 200 and check_usercred returns true iff the export
\* status is 200; every other status yields false.
C5_TrueIff200 ==
    /\ (HostMetaInHand /\ ~resp.raised) =>
          basic_ret = (IF resp.status_code = 200 THEN "True" ELSE "False")
    /\ (UsercheckInHand /\ ~resp.raised) =>
          usercred_ret = (IF resp.status_code = 200 THEN "True" ELSE "False")

C5_Witness ==
    /\ HostMetaInHand
    /\ ~resp.raised
    /\ resp.status_code = 204
    /\ basic_ret = "False"

\* C6: when the nodeinfo request returns status 404, check_nodeinfo returns
\* true whatever the body contains.
C6_FailOpenOn404 ==
    (NodeinfoInHand /\ ~resp.raised /\ resp.status_code = 404) =>
        nodeinfo_ret = "True"

C6_Witness ==
    /\ NodeinfoInHand
    /\ resp = Response(404, Json(Software(Name(JStr("mastodon")))))
    /\ nodeinfo_ret = "True"
    /\ pc = "AwaitChannel"

\* The body parses and its software.name is "hubzilla" or "redmatrix".
RecognizedSoftware(body) ==
    /\ body.valid
    /\ body.json.t = "obj"
    /\ \E i \in 1..Len(body.json.m) :
          /\ body.json.m[i].k = "software"
          /\ body.json.m[i].v.t = "obj"
          /\ \E j \in 1..Len(body.json.m[i].v.m) :
                /\ body.json.m[i].v.m[j].k = "name"
                /\ body.json.m[i].v.m[j].v \in {JStr("hubzilla"), JStr("redmatrix")}

\* C7: for a nodeinfo response whose status is not 404, check_nodeinfo
\* returns true iff the body parses and software.name is exactly "hubzilla"
\* or "redmatrix", and returns false otherwise, also when a key is absent or
\* the body is not JSON.
C7_FalseUnlessRecognized ==
    (NodeinfoInHand /\ ~resp.raised /\ resp.status_code # 404) =>
        nodeinfo_ret = (IF RecognizedSoftware(resp.body) THEN "True" ELSE "False")

(***************************************************************************)
(* Decoders, written from RFC 4648 and RFC 3629, for the header of C8.     *)
(***************************************************************************)
B64Alphabet ==
    <<
      65, 66, 67, 68, 69, 70, 71, 72, 73, 74, 75, 76, 77, 78, 79, 80,
      81, 82, 83, 84, 85, 86, 87, 88, 89, 90, 97, 98, 99, 100, 101,
      102, 103, 104, 105, 106, 107, 108, 109, 110, 111, 112, 113, 114,
      115, 116, 117, 118, 119, 120, 121, 122, 48, 49, 50, 51, 52, 53,
      54, 55, 56, 57, 43, 47 >>

B64Value(c) ==
    IF c = 61 THEN 0 ELSE (CHOOSE i \in 1..64 : B64Alphabet[i] = c) - 1

B64WellFormed(s) ==
    /\ Len(s) % 4 = 0
    /\ \A i \in 1..Len(s) :
          \/ \E k \in 1..64 : B64Alphabet[k] = s[i]
          \/ s[i] = 61 /\ i >= Len(s) - 1 /\ s[Len(s)] = 61

RECURSIVE B64Decode(_)
B64Decode(s) ==
    IF Len(s) < 4 THEN <<>>
    ELSE LET n == B64Value(s[1]) * 262144 + B64Value(s[2]) * 4096
                    + B64Value(s[3]) * 64 + B64Value(s[4])
             three == <<n \div 65536, (n \div 256) % 256, n % 256>>
             kept == IF s[3] = 61 THEN 1 ELSE IF s[4] = 61 THEN 2 ELSE 3
         IN  SubSeq(three, 1, kept) \o B64Decode(SubSeq(s, 5, Len(s)))

RECURSIVE Utf8Decode(_)
Utf8Decode(b) ==
    IF b = <<>> THEN <<>>
    ELSE LET width == IF b[1] < 128 THEN 1
                      ELSE IF b[1] < 224 THEN 2
                      ELSE IF b[1] < 240 THEN 3
                      ELSE 4
             cp == IF width = 1 THEN b[1]
                   ELSE IF width = 2 THEN (b[1] - 192) * 64 + (b[2] - 128)
                   ELSE IF width = 3
                        THEN (b[1] - 224) * 4096 + (b[2] - 128) * 64 + (b[3] - 128)
                   ELSE (b[1] - 240) * 262144 + (b[2] - 128) * 4096
                            + (b[3] - 128) * 64 + (b[4] - 128)
         IN  <<cp>> \o Utf8Decode(SubSeq(b, width + 1, Len(b)))

Str_export_url_example_com ==
    <<
      104, 116, 116, 112, 115, 58, 47, 47, 101, 120, 97, 109, 112,
      108, 101, 46, 99, 111, 109, 47, 97, 112, 105, 47, 122, 47, 49,
      46, 48, 47, 99, 104, 97, 110, 110, 101, 108, 47, 101, 120, 112,
      111, 114, 116, 47, 98, 97, 115, 105, 99 >>

\* C8: the authorization header sent by check_usercred is "Basic " followed
\* by the base64 encoding of the UTF-8 bytes of name + ":" + password, and
\* the request is a POST to /api/z/1.0/channel/export/basic on the instance
\* with parameters sections=channel and posts=0 and an empty body.
C8_BasicAuthRequest ==
    \A i \in 1..Len(requests) :
        requests[i].method = "POST" =>
            LET r == requests[i]
                encoded == DropFirst(r.authorization, Len(BasicPrefix))
            IN  /\ StartsWith(r.authorization, BasicPrefix)
                /\ B64WellFormed(encoded)
                /\ Utf8Decode(B64Decode(encoded)) = channel_name \o <<58>> \o pword
                /\ Len(encoded) = 4 * ((Len(B64Decode(encoded)) + 2) \div 3)
                /\ r.url = HttpsPrefix \o instance \o ExportPath
                /\ r.params = << <<"sections", "channel">>, <<"posts", "0">> >>
                /\ r.data = ""

C8_Witness ==
    /\ UsercheckInHand
    /\ channel_name = Str_alice
    /\ pword = Str_secret
    /\ instance = Str_example_com
    /\ requests[Len(requests)].method = "POST"
    /\ requests[Len(requests)].authorization = Str_Basic_alice_secret
    /\ requests[Len(requests)].url = Str_export_url_example_com

C10_RequestsOnceInOrder ==
    /\ Len(requests) <= 3
    /\ \A i \in 1..Len(requests) :
          /\ i = 1 => requests[i].method = "GET"
                        /\ requests[i].url = HttpsPrefix \o instance \o HostMetaPath
          /\ i = 2 => requests[i].method = "GET"
                        /\ requests[i].url = HttpsPrefix \o instance \o NodeinfoPath
          /\ i = 3 => requests[i].method = "POST"
                        /\ requests[i].url = HttpsPrefix \o instance \o ExportPath
    /\ Len(requests) >= 1 <=> basic_ret # "none"
    /\ Len(requests) >= 2 <=> nodeinfo_ret # "none"
    /\ Len(requests) >= 3 <=> usercred_ret # "none"

C10_Witness ==
    /\ pc = "Abort"
    /\ usercred_ret = "False"
    /\ resp.status_code = 401
    /\ Len(requests) = 3

====
